---- MODULE Spec2Model ----
(***************************************************************************)
(* Extensible record codec of the opencode_ai Python SDK:                  *)
(*   models/assistant_message_tokens.py  (AssistantMessageTokens)          *)
(*   models/event_message_updated.py     (EventMessageUpdated)             *)
(* Python dicts are objects: they live in a heap and are named by ids, so  *)
(* that copying (dict(src_dict)) and aliasing are different things.        *)
(***************************************************************************)
EXTENDS Integers, FiniteSets, Sequences, TLC

\* ---------------------------------------------------------------- bounds
MaxOps == 2        \* mutations (bag set/delete, attribute assignment) per run
MaxVal == 2        \* number of distinct values a caller passes in

\* ---------------------------------------------------------------- values
\* Untyped Python values, all of one shape.
NoneV == [kind |-> "none", n |-> 0, s |-> ""]
Num(i) == [kind |-> "num", n |-> i, s |-> ""]
Str(t) == [kind |-> "str", n |-> 0, s |-> t]
Ref(id) == [kind |-> "ref", n |-> 0, s |-> id]
Bool(b) == [kind |-> "bool", n |-> IF b THEN 1 ELSE 0, s |-> ""]
RecV == [kind |-> "rec", n |-> 0, s |-> ""]

EmptyMap == [k \in {} |-> NoneV]

\* names of the dict objects in the heap
SrcId == "src"         \* the caller's map
SrcNId == "src.nested"        \* the map nested in the caller's map
BagId == "bag"         \* additional_properties of the record
NBagId == "bag.nested"        \* additional_properties of the nested record
OutId == "out"         \* the map returned by to_dict
OutNId == "out.nested"        \* the map returned by the nested to_dict
Ids == {SrcId, SrcNId, BagId, NBagId, OutId, OutNId}

TagLiteral == "message.updated"
WrongTag == "wrong.value"

\* values the caller passes to assignments and bag set
NumVals == {Num(i) : i \in 1..MaxVal}
\* argument lists the caller passes to the constructors (distinct per field)
TokensArgs == {<<Num(100 + i), Num(200 + i), Num(300 + i), Num(400 + i), Num(500 + i)>> : i \in 1..MaxVal}
Tags == {Str(TagLiteral), Str(WrongTag)}

\* wire names of the named fields
TokensNames == {"input", "output", "reasoning", "cache"}
EventNames == {"type", "properties"}
CacheNames == {"read", "write"}
PropertiesNames == {"info"}

NamesOf(cls) ==
  CASE cls = "tokens" -> TokensNames
    [] cls = "event" -> EventNames
    [] cls = "cache" -> CacheNames
    [] cls = "properties" -> PropertiesNames
    [] OTHER -> {}

\* keys the caller uses on the bag of a record of class cls
BagKeys(cls) == NamesOf(cls) \cup {"extra"}

\* ---------------------------------------------------------------- dict
Remove(m, k) == [x \in (DOMAIN m) \ {k} |-> m[x]]

DictSet(m, k, v) == [x \in (DOMAIN m) \cup {k} |-> IF x = k THEN v ELSE m[x]]

\* dict.update: the entries of m2 overwrite those of m1
DictUpdate(m1, m2) ==
  [x \in (DOMAIN m1) \cup (DOMAIN m2) |-> IF x \in DOMAIN m2 THEN m2[x] ELSE m1[x]]

\* fault: d = src_dict, the caller's dict object itself
DictCopy_alias(h, sid, fresh) == [id |-> sid, heap |-> h]

\* d = dict(src_dict): a new dict object at slot fresh with the entries of sid
DictCopy(h, sid, fresh) == [id |-> fresh, heap |-> [h EXCEPT ![fresh] = h[sid]]]

\* fault: d.pop(k, None), no KeyError for an absent key
DictPop_default(h, id, k) ==
  IF k \in DOMAIN h[id]
  THEN [err |-> "none", val |-> h[id][k], heap |-> [h EXCEPT ![id] = Remove(h[id], k)]]
  ELSE [err |-> "none", val |-> NoneV, heap |-> h]

\* d.pop(k): removes k from the dict object id, KeyError when absent
DictPop(h, id, k) ==
  IF k \in DOMAIN h[id]
  THEN [err |-> "none", val |-> h[id][k], heap |-> [h EXCEPT ![id] = Remove(h[id], k)]]
  ELSE [err |-> "KeyError", val |-> NoneV, heap |-> h]

\* ---------------------------------------------------------------- records
NoNested == [cls |-> "none", fields |-> EmptyMap, additional_properties |-> ""]

NoRec ==
  [cls |-> "none", input_ |-> NoneV, output |-> NoneV, reasoning |-> NoneV,
   type_ |-> NoneV, nested |-> NoNested, additional_properties |-> ""]

Failure(e, h) == [err |-> e, rec |-> NoRec, heap |-> h]

\* Nested record classes (AssistantMessageTokensCache,
\* EventMessageUpdatedProperties): same codec pattern, primitive named fields.
NestedNew(cls, fields, h) ==
  [rec |-> [cls |-> cls, fields |-> fields, additional_properties |-> NBagId],
   heap |-> [h EXCEPT ![NBagId] = EmptyMap]]

Nested_to_dict(h, nrec) ==
  [h EXCEPT ![OutNId] = DictUpdate(h[nrec.additional_properties], nrec.fields)]

Nested_from_dict(h, cls, v) ==
  IF v.kind # "ref"
  THEN [err |-> "TypeError", rec |-> NoNested, heap |-> h]
  ELSE LET c == DictCopy(h, v.s, NBagId)
           names == NamesOf(cls)
           d == c.heap[c.id]
       IN IF ~(names \subseteq DOMAIN d)
          THEN [err |-> "KeyError", rec |-> NoNested, heap |-> c.heap]
          ELSE [err |-> "none",
                rec |-> [cls |-> cls, fields |-> [k \in names |-> d[k]],
                         additional_properties |-> c.id],
                heap |-> [c.heap EXCEPT ![c.id] =
                            [k \in (DOMAIN d) \ names |-> d[k]]]]

\* ---------------------------------------------------------------- state
VARIABLES heap, rec, err, res, last, nops

vars == <<heap, rec, err, res, last, nops>>

Op(cls, name, key, val, src) ==
  [cls |-> cls, op |-> name, key |-> key, val |-> val, src |-> src]

\* the maps a caller may hand to from_dict
SrcVal(k) ==
  CASE k = "input" -> Num(11)
    [] k = "output" -> Num(12)
    [] k = "reasoning" -> Num(13)
    [] k = "extra" -> Num(42)
    [] k = "read" -> Num(21)
    [] k = "write" -> Num(22)
    [] k = "hint" -> Num(44)
    [] k = "info" -> Str("msg")
    [] OTHER -> NoneV

\* the nested map holds its own value under "extra"
NestedSrcVal(k) == IF k = "extra" THEN Num(43) ELSE SrcVal(k)

NotAMap == Num(5)

SourceHeaps ==
  LET Outer(keys, nestedKey, nv, tag) ==
        [k \in keys |-> IF k = nestedKey THEN nv
                        ELSE IF k = "type" THEN tag ELSE SrcVal(k)]
      Empty == [i \in Ids |-> EmptyMap]
      Mk(outer, nested) == [Empty EXCEPT ![SrcId] = outer, ![SrcNId] = nested]
      Shapes(allKeys, nestedKey, nestedKeys, tags) ==
        { Mk(Outer(ks, nestedKey, NotAMap, t), EmptyMap) :
            ks \in SUBSET allKeys, t \in tags }
        \cup
        { Mk(Outer(x[1], nestedKey, Ref(SrcNId), x[3]), [k \in x[2] |-> NestedSrcVal(k)]) :
            x \in { y \in (SUBSET allKeys) \X (SUBSET nestedKeys) \X tags :
                      nestedKey \in y[1] } }
  IN Shapes(TokensNames \cup {"extra"}, "cache", CacheNames \cup {"extra", "hint"}, {NoneV})
     \cup
     Shapes(EventNames \cup {"extra"}, "properties", PropertiesNames \cup {"extra", "hint"}, Tags)

Init ==
  /\ heap \in SourceHeaps
  /\ rec = NoRec
  /\ err = "none"
  /\ res = NoneV
  /\ last = Op("none", "start", "", NoneV, "")
  /\ nops = 0

\* ---------------------------------------------------------------- AssistantMessageTokens
Tokens_new(h, input_, output, reasoning, cache) ==
  [rec |-> [cls |-> "tokens", input_ |-> input_, output |-> output,
            reasoning |-> reasoning, type_ |-> NoneV, nested |-> cache,
            additional_properties |-> BagId],
   heap |-> [h EXCEPT ![BagId] = EmptyMap]]

\* fault: the bag is written after the named fields
Tokens_to_dict_bagwins(h, r) ==
  LET h1 == Nested_to_dict(h, r.nested)
      named == [k \in TokensNames |->
                  CASE k = "input" -> r.input_
                    [] k = "output" -> r.output
                    [] k = "reasoning" -> r.reasoning
                    [] k = "cache" -> Ref(OutNId)]
      field_dict == DictUpdate(DictUpdate(EmptyMap, named), h1[r.additional_properties])
  IN [h1 EXCEPT ![OutId] = field_dict]

Tokens_to_dict_op(h, r) ==
  LET h1 == Nested_to_dict(h, r.nested)
      named == [k \in TokensNames |->
                  CASE k = "input" -> r.input_
                    [] k = "output" -> r.output
                    [] k = "reasoning" -> r.reasoning
                    [] k = "cache" -> Ref(OutNId)]
      field_dict == DictUpdate(DictUpdate(EmptyMap, h1[r.additional_properties]), named)
  IN [h1 EXCEPT ![OutId] = field_dict]

\* fault: output and reasoning read from each other's key
Tokens_from_dict_swapped(h, sid) ==
  LET c == DictCopy(h, sid, BagId)
      d == c.id
      p1 == DictPop(c.heap, d, "input")
      p2 == DictPop(p1.heap, d, "reasoning")
      p3 == DictPop(p2.heap, d, "output")
      p4 == DictPop(p3.heap, d, "cache")
      n == Nested_from_dict(p4.heap, "cache", p4.val)
  IN IF p1.err # "none" THEN Failure(p1.err, p1.heap)
     ELSE IF p2.err # "none" THEN Failure(p2.err, p2.heap)
     ELSE IF p3.err # "none" THEN Failure(p3.err, p3.heap)
     ELSE IF p4.err # "none" THEN Failure(p4.err, p4.heap)
     ELSE IF n.err # "none" THEN Failure(n.err, n.heap)
     ELSE [err |-> "none",
           rec |-> [cls |-> "tokens", input_ |-> p1.val, output |-> p2.val,
                    reasoning |-> p3.val, type_ |-> NoneV, nested |-> n.rec,
                    additional_properties |-> d],
           heap |-> n.heap]

\* fault: the keys the nested record did not consume are added to the outer bag
Tokens_from_dict_flat(h, sid) ==
  LET c == DictCopy(h, sid, BagId)
      d == c.id
      p1 == DictPop(c.heap, d, "input")
      p2 == DictPop(p1.heap, d, "output")
      p3 == DictPop(p2.heap, d, "reasoning")
      p4 == DictPop(p3.heap, d, "cache")
      n == Nested_from_dict(p4.heap, "cache", p4.val)
  IN IF p1.err # "none" THEN Failure(p1.err, p1.heap)
     ELSE IF p2.err # "none" THEN Failure(p2.err, p2.heap)
     ELSE IF p3.err # "none" THEN Failure(p3.err, p3.heap)
     ELSE IF p4.err # "none" THEN Failure(p4.err, p4.heap)
     ELSE IF n.err # "none" THEN Failure(n.err, n.heap)
     ELSE [err |-> "none",
           rec |-> [cls |-> "tokens", input_ |-> p1.val, output |-> p2.val,
                    reasoning |-> p3.val, type_ |-> NoneV, nested |-> n.rec,
                    additional_properties |-> d],
           heap |-> [n.heap EXCEPT ![d] =
                       DictUpdate(n.heap[n.rec.additional_properties], n.heap[d])]]

Tokens_from_dict_op(h, sid) ==
  LET c == DictCopy(h, sid, BagId)
      d == c.id
      p1 == DictPop(c.heap, d, "input")
      p2 == DictPop(p1.heap, d, "output")
      p3 == DictPop(p2.heap, d, "reasoning")
      p4 == DictPop(p3.heap, d, "cache")
      n == Nested_from_dict(p4.heap, "cache", p4.val)
  IN IF p1.err # "none" THEN Failure(p1.err, p1.heap)
     ELSE IF p2.err # "none" THEN Failure(p2.err, p2.heap)
     ELSE IF p3.err # "none" THEN Failure(p3.err, p3.heap)
     ELSE IF p4.err # "none" THEN Failure(p4.err, p4.heap)
     ELSE IF n.err # "none" THEN Failure(n.err, n.heap)
     ELSE [err |-> "none",
           rec |-> [cls |-> "tokens", input_ |-> p1.val, output |-> p2.val,
                    reasoning |-> p3.val, type_ |-> NoneV, nested |-> n.rec,
                    additional_properties |-> d],
           heap |-> n.heap]

\* ---------------------------------------------------------------- EventMessageUpdated
Event_new(h, type_, properties) ==
  [rec |-> [cls |-> "event", input_ |-> NoneV, output |-> NoneV,
            reasoning |-> NoneV, type_ |-> type_, nested |-> properties,
            additional_properties |-> BagId],
   heap |-> [h EXCEPT ![BagId] = EmptyMap]]

\* fault: the bag is left out of the returned map
Event_to_dict_nobag(h, r) ==
  LET h1 == Nested_to_dict(h, r.nested)
      named == [k \in EventNames |->
                  CASE k = "type" -> r.type_
                    [] k = "properties" -> Ref(OutNId)]
      field_dict == DictUpdate(EmptyMap, named)
  IN [h1 EXCEPT ![OutId] = field_dict]

Event_to_dict_op(h, r) ==
  LET h1 == Nested_to_dict(h, r.nested)
      named == [k \in EventNames |->
                  CASE k = "type" -> r.type_
                    [] k = "properties" -> Ref(OutNId)]
      field_dict == DictUpdate(DictUpdate(EmptyMap, h1[r.additional_properties]), named)
  IN [h1 EXCEPT ![OutId] = field_dict]

\* fault: the tag is compared after "properties" has been deserialized
Event_from_dict_latecheck(h, sid) ==
  LET c == DictCopy(h, sid, BagId)
      d == c.id
      p1 == DictPop(c.heap, d, "type")
      p2 == DictPop(p1.heap, d, "properties")
      n == Nested_from_dict(p2.heap, "properties", p2.val)
  IN IF p1.err # "none" THEN Failure(p1.err, p1.heap)
     ELSE IF p2.err # "none" THEN Failure(p2.err, p2.heap)
     ELSE IF n.err # "none" THEN Failure(n.err, n.heap)
     ELSE IF p1.val # Str(TagLiteral) THEN Failure("ValueError", n.heap)
     ELSE [err |-> "none",
           rec |-> [cls |-> "event", input_ |-> NoneV, output |-> NoneV,
                    reasoning |-> NoneV, type_ |-> p1.val, nested |-> n.rec,
                    additional_properties |-> d],
           heap |-> n.heap]

\* fault: "type" is read with d["type"] and stays in d
Event_from_dict_keeptype(h, sid) ==
  LET c == DictCopy(h, sid, BagId)
      d == c.id
      p1 == DictPop(c.heap, d, "type")
      p2 == DictPop(c.heap, d, "properties")
      n == Nested_from_dict(p2.heap, "properties", p2.val)
  IN IF p1.err # "none" THEN Failure(p1.err, p1.heap)
     ELSE IF p1.val # Str(TagLiteral) THEN Failure("ValueError", p1.heap)
     ELSE IF p2.err # "none" THEN Failure(p2.err, p2.heap)
     ELSE IF n.err # "none" THEN Failure(n.err, n.heap)
     ELSE [err |-> "none",
           rec |-> [cls |-> "event", input_ |-> NoneV, output |-> NoneV,
                    reasoning |-> NoneV, type_ |-> p1.val, nested |-> n.rec,
                    additional_properties |-> d],
           heap |-> n.heap]

Event_from_dict_op(h, sid) ==
  LET c == DictCopy(h, sid, BagId)
      d == c.id
      p1 == DictPop(c.heap, d, "type")
      p2 == DictPop(p1.heap, d, "properties")
      n == Nested_from_dict(p2.heap, "properties", p2.val)
  IN IF p1.err # "none" THEN Failure(p1.err, p1.heap)
     ELSE IF p1.val # Str(TagLiteral) THEN Failure("ValueError", p1.heap)
     ELSE IF p2.err # "none" THEN Failure(p2.err, p2.heap)
     ELSE IF n.err # "none" THEN Failure(n.err, n.heap)
     ELSE [err |-> "none",
           rec |-> [cls |-> "event", input_ |-> NoneV, output |-> NoneV,
                    reasoning |-> NoneV, type_ |-> p1.val, nested |-> n.rec,
                    additional_properties |-> d],
           heap |-> n.heap]

\* ---------------------------------------------------------------- bag accessors
Bag_getitem(h, r, key) ==
  IF key \in DOMAIN h[r.additional_properties]
  THEN [err |-> "none", val |-> h[r.additional_properties][key]]
  ELSE [err |-> "KeyError", val |-> NoneV]

Bag_setitem(h, r, key, value) ==
  [h EXCEPT ![r.additional_properties] = DictSet(h[r.additional_properties], key, value)]

\* fault: deleting an absent key is silently accepted
Bag_delitem_silent(h, r, key) ==
  [err |-> "none",
   heap |-> [h EXCEPT ![r.additional_properties] = Remove(h[r.additional_properties], key)]]

Bag_delitem(h, r, key) ==
  IF key \in DOMAIN h[r.additional_properties]
  THEN [err |-> "none",
        heap |-> [h EXCEPT ![r.additional_properties] = Remove(h[r.additional_properties], key)]]
  ELSE [err |-> "KeyError", heap |-> h]

Bag_contains(h, r, key) == key \in DOMAIN h[r.additional_properties]

\* ---------------------------------------------------------------- caller
\* The map returned by to_dict is dropped by the caller at its next call that
\* is not from_dict of that map.
DropOut(h) == [h EXCEPT ![OutId] = EmptyMap, ![OutNId] = EmptyMap]

\* from_dict raised: the caller's variable keeps its record, the dicts the
\* failed call allocated are garbage.
Raised(h) == [h EXCEPT ![BagId] = heap[BagId], ![NBagId] = heap[NBagId]]

FromDictStep(cls, r, sid) ==
  /\ err' = r.err
  /\ last' = Op(cls, "from_dict", "", NoneV, sid)
  /\ nops' = nops
  /\ IF r.err = "none"
     THEN /\ rec' = r.rec
          /\ res' = RecV
          /\ heap' = (IF sid = OutId THEN r.heap ELSE DropOut(r.heap))
     ELSE /\ rec' = rec
          /\ res' = NoneV
          /\ heap' = (IF sid = OutId THEN Raised(r.heap) ELSE DropOut(Raised(r.heap)))

\* the caller passes its own map, or the map to_dict has just returned
CanPass(sid) == sid = SrcId \/ (sid = OutId /\ last.op = "to_dict")

\* ---------------------------------------------------------------- actions
Tokens_init(input_, output, reasoning, read, write) ==
  /\ rec.cls = "none"
  /\ heap[SrcId] = EmptyMap
  /\ LET c == NestedNew("cache", [k \in CacheNames |-> IF k = "read" THEN read ELSE write], heap)
         t == Tokens_new(c.heap, input_, output, reasoning, c.rec)
     IN /\ rec' = t.rec
        /\ heap' = DropOut(t.heap)
  /\ err' = "none"
  /\ res' = RecV
  /\ last' = Op("tokens", "init", "", NoneV, "")
  /\ nops' = nops

Tokens_from_dict(sid) ==
  /\ CanPass(sid)
  /\ FromDictStep("tokens", Tokens_from_dict_op(heap, sid), sid)

Tokens_to_dict ==
  /\ rec.cls = "tokens"
  /\ heap' = Tokens_to_dict_op(heap, rec)
  /\ res' = Ref(OutId)
  /\ err' = "none"
  /\ last' = Op("tokens", "to_dict", "", NoneV, "")
  /\ UNCHANGED <<rec, nops>>

Tokens_setattr(name, value) ==
  /\ rec.cls = "tokens"
  /\ nops < MaxOps
  /\ rec' = CASE name = "input_" -> [rec EXCEPT !.input_ = value]
              [] name = "output" -> [rec EXCEPT !.output = value]
              [] name = "reasoning" -> [rec EXCEPT !.reasoning = value]
  /\ heap' = DropOut(heap)
  /\ res' = NoneV
  /\ err' = "none"
  /\ last' = Op("tokens", "setattr", name, value, "")
  /\ nops' = nops + 1

Event_init(type_, info) ==
  /\ rec.cls = "none"
  /\ heap[SrcId] = EmptyMap
  /\ LET p == NestedNew("properties", [k \in PropertiesNames |-> info], heap)
         e == Event_new(p.heap, type_, p.rec)
     IN /\ rec' = e.rec
        /\ heap' = DropOut(e.heap)
  /\ err' = "none"
  /\ res' = RecV
  /\ last' = Op("event", "init", "", NoneV, "")
  /\ nops' = nops

Event_from_dict(sid) ==
  /\ CanPass(sid)
  /\ FromDictStep("event", Event_from_dict_op(heap, sid), sid)

Event_to_dict ==
  /\ rec.cls = "event"
  /\ heap' = Event_to_dict_op(heap, rec)
  /\ res' = Ref(OutId)
  /\ err' = "none"
  /\ last' = Op("event", "to_dict", "", NoneV, "")
  /\ UNCHANGED <<rec, nops>>

Event_setattr(value) ==
  /\ rec.cls = "event"
  /\ nops < MaxOps
  /\ rec' = [rec EXCEPT !.type_ = value]
  /\ heap' = DropOut(heap)
  /\ res' = NoneV
  /\ err' = "none"
  /\ last' = Op("event", "setattr", "type_", value, "")
  /\ nops' = nops + 1

GetItem(cls, key) ==
  /\ rec.cls = cls
  /\ LET g == Bag_getitem(heap, rec, key)
     IN /\ err' = g.err
        /\ res' = g.val
  /\ last' = Op(cls, "get", key, NoneV, "")
  /\ heap' = DropOut(heap)
  /\ UNCHANGED <<rec, nops>>

SetItem(cls, key, value) ==
  /\ rec.cls = cls
  /\ nops < MaxOps
  /\ heap' = DropOut(Bag_setitem(heap, rec, key, value))
  /\ err' = "none"
  /\ res' = NoneV
  /\ last' = Op(cls, "set", key, value, "")
  /\ nops' = nops + 1
  /\ UNCHANGED rec

DelItem(cls, key) ==
  /\ rec.cls = cls
  /\ LET r == Bag_delitem(heap, rec, key)
     IN /\ err' = r.err
        /\ IF r.err = "none"
           THEN nops < MaxOps /\ nops' = nops + 1 /\ heap' = DropOut(r.heap)
           ELSE nops' = nops /\ heap' = DropOut(r.heap)
  /\ res' = NoneV
  /\ last' = Op(cls, "del", key, NoneV, "")
  /\ UNCHANGED rec

Contains(cls, key) ==
  /\ rec.cls = cls
  /\ res' = Bool(Bag_contains(heap, rec, key))
  /\ err' = "none"
  /\ last' = Op(cls, "contains", key, NoneV, "")
  /\ heap' = DropOut(heap)
  /\ UNCHANGED <<rec, nops>>

Tokens_getitem == \E key \in BagKeys("tokens") : GetItem("tokens", key)
Tokens_setitem == \E key \in BagKeys("tokens"), value \in NumVals : SetItem("tokens", key, value)
Tokens_delitem == \E key \in BagKeys("tokens") : DelItem("tokens", key)
Tokens_contains == \E key \in BagKeys("tokens") : Contains("tokens", key)
Event_getitem == \E key \in BagKeys("event") : GetItem("event", key)
Event_setitem == \E key \in BagKeys("event"), value \in NumVals : SetItem("event", key, value)
Event_delitem == \E key \in BagKeys("event") : DelItem("event", key)
Event_contains == \E key \in BagKeys("event") : Contains("event", key)

Next ==
  \/ \E a \in TokensArgs : Tokens_init(a[1], a[2], a[3], a[4], a[5])
  \/ \E sid \in {SrcId, OutId} : Tokens_from_dict(sid)
  \/ Tokens_to_dict
  \/ \E name \in {"input_", "output", "reasoning"}, value \in NumVals : Tokens_setattr(name, value)
  \/ Tokens_getitem
  \/ Tokens_setitem
  \/ Tokens_delitem
  \/ Tokens_contains
  \/ \E t \in Tags, info \in NumVals : Event_init(t, info)
  \/ \E sid \in {SrcId, OutId} : Event_from_dict(sid)
  \/ Event_to_dict
  \/ \E value \in Tags : Event_setattr(value)
  \/ Event_getitem
  \/ Event_setitem
  \/ Event_delitem
  \/ Event_contains

Spec == Init /\ [][Next]_vars

TypeOK ==
  /\ DOMAIN heap = Ids
  /\ rec.cls \in {"none", "tokens", "event"}
  /\ err \in {"none", "KeyError", "ValueError", "TypeError"}
  /\ nops \in 0..MaxOps

\* ---------------------------------------------------------------- views
Bag(h, r) == h[r.additional_properties]
NBag(h, r) == h[r.nested.additional_properties]

\* the entries of m whose keys are not in names
Rest(m, names) == [k \in (DOMAIN m) \ names |-> m[k]]

\* a map with the nested maps it refers to, by content
Deep(h, id) ==
  [k \in DOMAIN h[id] |->
     IF h[id][k].kind = "ref"
     THEN [v |-> Ref(""), m |-> h[h[id][k].s]]
     ELSE [v |-> h[id][k], m |-> EmptyMap]]

\* what equality of two records compares: named fields and bag contents,
\* recursively for the nested record
RecView(h, r) ==
  [cls |-> r.cls, input_ |-> r.input_, output |-> r.output,
   reasoning |-> r.reasoning, type_ |-> r.type_,
   ncls |-> r.nested.cls, nfields |-> r.nested.fields, nbag |-> NBag(h, r),
   bag |-> Bag(h, r)]

Live == rec.cls # "none"

Disjoint(h, r) == (DOMAIN Bag(h, r)) \cap NamesOf(r.cls) = {}

ValidRecord(h, r) ==
  /\ r.cls # "none"
  /\ Disjoint(h, r)
  /\ r.cls = "event" => r.type_ = Str(TagLiteral)

\* the serialized value of the named field with wire name k, after to_dict
Serialized(r, k) ==
  CASE k = "input" -> r.input_
    [] k = "output" -> r.output
    [] k = "reasoning" -> r.reasoning
    [] k = "type" -> r.type_
    [] OTHER -> Ref(OutNId)

\* ---------------------------------------------------------------- C1
\* C1: round-trip law. When to_dict has just serialized a valid record R
\* (bag keys disjoint from the named-field keys, type_ the literal for an
\* event) and from_dict of R's class is applied to the returned map, the
\* call succeeds and the record it returns equals R in every named field and
\* in bag contents, the nested record included.
C1_RoundTrip ==
  [][ ( /\ last.op = "to_dict"
        /\ ValidRecord(heap, rec)
        /\ last'.op = "from_dict"
        /\ last'.src = OutId
        /\ last'.cls = rec.cls )
      => ( /\ err' = "none"
           /\ res' = RecV
           /\ RecView(heap', rec') = RecView(heap, rec) ) ]_vars

\* a token record with a non-empty bag and a non-empty nested bag came back
\* from from_dict(to_dict(R))
C1_Witness ==
  /\ last.op = "from_dict" /\ last.src = OutId /\ last.cls = "tokens"
  /\ err = "none" /\ rec.cls = "tokens"
  /\ Bag(heap, rec) # EmptyMap
  /\ NBag(heap, rec) # EmptyMap
  /\ Deep(heap, OutId) = Deep(heap, SrcId)

\* ---------------------------------------------------------------- C2
\* C2: unknown-field preservation. When from_dict accepts a map M, the bag of
\* the record is exactly the entries of M under keys that are not named
\* fields, and to_dict of that record returns a map equal to M (same keys,
\* same value per key, nested maps compared by content).
C2_UnknownPreserved ==
  [][ /\ (last'.op = "from_dict" /\ err' = "none")
         => Bag(heap', rec') = Rest(heap[last'.src], NamesOf(last'.cls))
      /\ (last.op = "from_dict" /\ err = "none" /\ last'.op = "to_dict")
         => Deep(heap', OutId) = Deep(heap, last.src) ]_vars

\* an event map with an extra key was deserialized and serialized back
C2_Witness ==
  /\ last.op = "to_dict" /\ last.cls = "event"
  /\ "extra" \in DOMAIN heap[SrcId]
  /\ heap[SrcId]["extra"] = Num(42)
  /\ Bag(heap, rec) = [k \in {"extra"} |-> Num(42)]
  /\ Deep(heap, OutId) = Deep(heap, SrcId)

\* ---------------------------------------------------------------- C3
\* C3: tag enforcement. EventMessageUpdated.from_dict on a map whose "type"
\* is present and differs from "message.updated" raises the tag-mismatch
\* ValueError and returns no record, whatever else the map holds: the tag is
\* checked before "properties" is looked at.
C3_TagEnforced ==
  [][ ( /\ last'.op = "from_dict"
        /\ last'.cls = "event"
        /\ "type" \in DOMAIN heap[last'.src]
        /\ heap[last'.src]["type"] # Str(TagLiteral) )
      => ( /\ err' = "ValueError"
           /\ res' = NoneV
           /\ rec' = rec ) ]_vars

\* the tag mismatch was raised on a map that has no "properties" at all
C3_Witness ==
  /\ last.op = "from_dict" /\ last.cls = "event" /\ last.src = SrcId
  /\ err = "ValueError"
  /\ heap[SrcId]["type"] = Str(WrongTag)
  /\ "properties" \notin DOMAIN heap[SrcId]

\* ---------------------------------------------------------------- C4
MissingField(h, l) == ~(NamesOf(l.cls) \subseteq DOMAIN h[l.src])

WrongTagPresent(h, l) ==
  /\ l.cls = "event"
  /\ "type" \in DOMAIN h[l.src]
  /\ h[l.src]["type"] # Str(TagLiteral)

\* C4 as stated: from_dict on a map that lacks a required key raises the
\* missing-field KeyError and returns no record, whatever the map holds.
C4_MissingFieldAlways ==
  [][ (last'.op = "from_dict" /\ MissingField(heap, last'))
      => (err' = "KeyError" /\ res' = NoneV /\ rec' = rec) ]_vars

\* C4 amended: from_dict on a map that lacks a required key returns no
\* record; it raises the missing-field KeyError, except that
\* EventMessageUpdated.from_dict raises the tag-mismatch ValueError when
\* "properties" is the absent key and "type" is present with a wrong value.
C4_MissingField ==
  [][ (last'.op = "from_dict" /\ MissingField(heap, last'))
      => ( /\ res' = NoneV
           /\ rec' = rec
           /\ err' = IF WrongTagPresent(heap, last') THEN "ValueError"
                     ELSE "KeyError" ) ]_vars

\* the token map without "input" (all other keys present) was rejected
C4_Witness ==
  /\ last.op = "from_dict" /\ last.cls = "tokens" /\ last.src = SrcId
  /\ err = "KeyError" /\ res = NoneV
  /\ DOMAIN heap[SrcId] = {"output", "reasoning", "cache"}

\* ---------------------------------------------------------------- C5
\* C5: bag precedence. The map to_dict returns holds, under each named-field
\* key, the serialized value of the named field (never the bag's value under
\* that key), and under every other bag key the bag's value; it has no other
\* keys.
C5_BagPrecedence ==
  last.op = "to_dict" =>
    LET out == heap[OutId]
        bag == Bag(heap, rec)
    IN /\ DOMAIN out = NamesOf(rec.cls) \cup DOMAIN bag
       /\ \A k \in NamesOf(rec.cls) : out[k] = Serialized(rec, k)
       /\ \A k \in (DOMAIN bag) \ NamesOf(rec.cls) : out[k] = bag[k]
       /\ heap[OutNId] = DictUpdate(NBag(heap, rec), rec.nested.fields)

\* to_dict ran on a record whose bag holds another value under a named key
C5_Witness ==
  /\ last.op = "to_dict"
  /\ \E k \in NamesOf(rec.cls) \cap DOMAIN Bag(heap, rec) :
        Bag(heap, rec)[k] # heap[OutId][k]

\* ---------------------------------------------------------------- C6
\* C6 as stated: no record's bag ever holds a key that is the wire name of
\* one of the record's named fields.
C6_AlwaysDisjoint == Live => Disjoint(heap, rec)

NamedSet(l) == l.op = "set" /\ l.key \in NamesOf(l.cls)

\* C6 amended: the record a constructor or from_dict returns has no
\* named-field key in its bag, and to_dict, get, contains, delete, assignment
\* to a named field and set under a key that is not a named-field wire name
\* keep it that way; set under a named-field wire name is accepted and puts that key
\* in the bag.
C6_DisjointUnlessNamedSet ==
  [][ /\ (last'.op \in {"init", "from_dict"} /\ err' = "none")
         => Disjoint(heap', rec')
      /\ (Live /\ Disjoint(heap, rec) /\ ~NamedSet(last'))
         => Disjoint(heap', rec')
      /\ NamedSet(last')
         => (err' = "none" /\ last'.key \in DOMAIN Bag(heap', rec')) ]_vars

\* a deserialized record with leftover keys, after a set under a free key
C6_Witness ==
  /\ last.op = "set" /\ last.key = "extra"
  /\ heap[SrcId] # EmptyMap
  /\ Bag(heap, rec) # EmptyMap
  /\ Disjoint(heap, rec)

\* ---------------------------------------------------------------- C7
\* C7: source-map isolation. No call changes the caller's map or the map
\* nested in it: not from_dict, whether it succeeds or raises, and not a
\* later bag set or delete on the record; the same holds for the map
\* to_dict returned when it is the one passed to from_dict.
C7_SourceIsolated ==
  [][ /\ heap'[SrcId] = heap[SrcId]
      /\ heap'[SrcNId] = heap[SrcNId]
      /\ (last'.op = "from_dict" /\ last'.src = OutId)
         => (heap'[OutId] = heap[OutId] /\ heap'[OutNId] = heap[OutNId]) ]_vars

\* the bag of a deserialized record was changed and differs from the
\* leftover entries of the caller's map
C7_Witness ==
  /\ last.op \in {"set", "del"} /\ err = "none"
  /\ NamesOf(rec.cls) \subseteq DOMAIN heap[SrcId]
  /\ Bag(heap, rec) # Rest(heap[SrcId], NamesOf(rec.cls))

\* ---------------------------------------------------------------- C8
\* C8: tag immutability. Every EventMessageUpdated record has type_ equal to
\* "message.updated", and the map to_dict returns for it holds
\* "type": "message.updated".
C8_TagImmutable ==
  /\ rec.cls = "event" => rec.type_ = Str(TagLiteral)
  /\ (last.op = "to_dict" /\ last.cls = "event")
     => heap[OutId]["type"] = Str(TagLiteral)

\* ---------------------------------------------------------------- C9
\* C9: nested recursion. After from_dict the outer bag is exactly the
\* unknown entries of the outer map and the nested record's bag exactly the
\* unknown entries of the nested map; to_dict writes each bag's unknown
\* entries into the map of its own level and into no other.
C9_NestedLevels ==
  [][ /\ (last'.op = "from_dict" /\ err' = "none")
         => LET outer == heap[last'.src]
                nkey == IF last'.cls = "tokens" THEN "cache" ELSE "properties"
                inner == heap[outer[nkey].s]
            IN /\ Bag(heap', rec') = Rest(outer, NamesOf(rec'.cls))
               /\ NBag(heap', rec') = Rest(inner, NamesOf(rec'.nested.cls))
      /\ (last'.op = "to_dict")
         => /\ Rest(heap'[OutId], NamesOf(rec.cls))
                 = Rest(Bag(heap, rec), NamesOf(rec.cls))
            /\ Rest(heap'[OutNId], NamesOf(rec.nested.cls))
                 = Rest(NBag(heap, rec), NamesOf(rec.nested.cls)) ]_vars

\* a token map with "extra" at both levels and "hint" in "cache" only
C9_Witness ==
  /\ last.op = "to_dict" /\ last.cls = "tokens"
  /\ Bag(heap, rec) = [k \in {"extra"} |-> Num(42)]
  /\ NBag(heap, rec) = [k \in {"extra", "hint"} |-> IF k = "extra" THEN Num(43) ELSE Num(44)]
  /\ heap[OutId]["extra"] = Num(42)
  /\ heap[OutNId]["extra"] = Num(43)

\* ---------------------------------------------------------------- C10
FrameExcept(keys) ==
  /\ rec' = rec
  /\ \A k \in (DOMAIN Bag(heap, rec)) \ keys :
        k \in DOMAIN Bag(heap', rec') /\ Bag(heap', rec')[k] = Bag(heap, rec)[k]
  /\ DOMAIN Bag(heap', rec') \subseteq (DOMAIN Bag(heap, rec)) \cup keys

\* C10: bag accessors. get and delete of an absent key raise KeyError and
\* change nothing; get of a present key returns its value; set(key, value)
\* makes get(key) return value and contains(key) true and leaves every other
\* entry and every named field alone; delete of a present key removes
\* exactly that entry; contains never raises and answers whether the key is
\* in the bag.
C10_BagAccessors ==
  [][ LET key == last'.key
          bag == Bag(heap, rec)
          bag2 == Bag(heap', rec')
      IN /\ (last'.op = "get" /\ key \notin DOMAIN bag)
            => (err' = "KeyError" /\ FrameExcept({}))
         /\ (last'.op = "get" /\ key \in DOMAIN bag)
            => (err' = "none" /\ res' = bag[key] /\ FrameExcept({}))
         /\ (last'.op = "del" /\ key \notin DOMAIN bag)
            => (err' = "KeyError" /\ FrameExcept({}))
         /\ (last'.op = "del" /\ key \in DOMAIN bag)
            => (err' = "none" /\ key \notin DOMAIN bag2 /\ FrameExcept({key}))
         /\ (last'.op = "set")
            => /\ err' = "none"
               /\ Bag_getitem(heap', rec', key) = [err |-> "none", val |-> last'.val]
               /\ Bag_contains(heap', rec', key)
               /\ FrameExcept({key})
         /\ (last'.op = "contains")
            => /\ err' = "none"
               /\ res' = Bool(key \in DOMAIN bag)
               /\ FrameExcept({}) ]_vars

\* delete of an absent key was refused on a record whose bag is not empty
C10_Witness ==
  /\ last.op = "del" /\ err = "KeyError"
  /\ Bag(heap, rec) # EmptyMap
  /\ last.key \notin DOMAIN Bag(heap, rec)

====
